---- MODULE Spec2Model ----
(***************************************************************************)
(* GovBot: the scripted dialog engine of app.py (chatbot_response and the  *)
(* Flask routes that carry its session) and the SQLite store of db.py.     *)
(*                                                                         *)
(* A Python str that the code inspects character by character (the user's  *)
(* message, the collected answers, an application id) is a sequence of     *)
(* one-character strings; the literals the code only compares or assigns   *)
(* whole (step names, service names, status values, credentials) are TLA+  *)
(* strings.  A Python dict is a function whose DOMAIN is its key set.      *)
(*                                                                         *)
(* Every db.py function opens its own connection and closes it on its last *)
(* line.  When execute() raises, commit() and close() are skipped: the     *)
(* connection stays open until the garbage collector finalizes it, and if  *)
(* its INSERT had taken the write lock the database stays locked for every *)
(* other writer until then.  locked is that lock.                          *)
(***************************************************************************)
EXTENDS Integers, Sequences, FiniteSets, TLC

VARIABLES session, applications, locked, clock, last

vars == <<session, applications, locked, clock, last>>

(***************************************************************************)
(* Bounds of the model.                                                    *)
(***************************************************************************)
MaxClock == 1

(***************************************************************************)
(* Python str methods, on sequences of characters.                         *)
(***************************************************************************)
LowerLetters ==
  <<"a","b","c","d","e","f","g","h","i","j","k","l","m",
    "n","o","p","q","r","s","t","u","v","w","x","y","z">>

UpperLetters ==
  <<"A","B","C","D","E","F","G","H","I","J","K","L","M",
    "N","O","P","Q","R","S","T","U","V","W","X","Y","Z">>

Digits == {"0","1","2","3","4","5","6","7","8","9"}

LowerSet == {LowerLetters[i] : i \in 1..26}

UpperSet == {UpperLetters[i] : i \in 1..26}

\* the case mappings of the ASCII letters
ToLower == [c \in UpperSet |-> LowerLetters[CHOOSE i \in 1..26 : UpperLetters[i] = c]]

ToUpper == [c \in LowerSet |-> UpperLetters[CHOOSE i \in 1..26 : LowerLetters[i] = c]]

IsCased(c) == c \in LowerSet \/ c \in UpperSet

IsSpace(c) == c \in {" ", "\t", "\n"}

lowerChar(c) == IF c \in UpperSet THEN ToLower[c] ELSE c

upperChar(c) == IF c \in LowerSet THEN ToUpper[c] ELSE c

SetMin(S) == CHOOSE x \in S : \A y \in S : x <= y

SetMax(S) == CHOOSE x \in S : \A y \in S : x >= y

\* str.strip(): drop the leading and the trailing whitespace
strip(s) ==
  LET keep == {i \in 1..Len(s) : ~IsSpace(s[i])}
  IN  IF keep = {} THEN <<>> ELSE SubSeq(s, SetMin(keep), SetMax(keep))

\* str.lower()
lower(s) == [i \in 1..Len(s) |-> lowerChar(s[i])]

\* str.upper()
upper(s) == [i \in 1..Len(s) |-> upperChar(s[i])]

\* str.title(): a cased character is upper-cased when it starts a run of
\* cased characters and lower-cased inside one
title(s) ==
  [i \in 1..Len(s) |->
     IF ~IsCased(s[i]) THEN s[i]
     ELSE IF i > 1 /\ IsCased(s[i-1]) THEN lowerChar(s[i])
     ELSE upperChar(s[i])]

\* str.isdigit(): non-empty and every character a digit
isdigit(s) == s # <<>> /\ \A i \in 1..Len(s) : s[i] \in Digits

\* the operator `sub in s` on two strs
In(sub, s) ==
  \E i \in 1..(Len(s) - Len(sub) + 1) : SubSeq(s, i, i + Len(sub) - 1) = sub

\* str.replace(old, "") for a one-character old
replace(s, old) == SelectSeq(s, LAMBDA c : c # old)

(***************************************************************************)
(* Python dict operations.                                                 *)
(***************************************************************************)
EmptyDict == [k \in {} |-> <<>>]

Get(d, k, default) == IF k \in DOMAIN d THEN d[k] ELSE default

Put(d, k, v) == [x \in (DOMAIN d) \cup {k} |-> IF x = k THEN v ELSE d[x]]

Pop(d, k) == [x \in (DOMAIN d) \ {k} |-> d[x]]

(***************************************************************************)
(* String literals of the source, as character sequences.                  *)
(***************************************************************************)
EmptyStr == <<>>

Lit_apply == <<"a","p","p","l","y">>
Lit_hello == <<"h","e","l","l","o">>
Lit_hi == <<"h","i">>
Lit_start == <<"s","t","a","r","t">>
Lit_status == <<"s","t","a","t","u","s">>
Lit_check == <<"c","h","e","c","k">>
Lit_1 == <<"1">>
Lit_2 == <<"2">>
Lit_3 == <<"3">>
Lit_license == <<"l","i","c","e","n","s","e">>
Lit_certificate == <<"c","e","r","t","i","f","i","c","a","t","e">>
Lit_complaint == <<"c","o","m","p","l","a","i","n","t">>
Lit_skip == <<"s","k","i","p">>
Lit_yes == <<"y","e","s">>
Lit_y == <<"y">>
Lit_confirm == <<"c","o","n","f","i","r","m">>
Lit_submit == <<"s","u","b","m","i","t">>
Lit_no == <<"n","o">>
Lit_n == <<"n">>
Lit_restart == <<"r","e","s","t","a","r","t">>

(***************************************************************************)
(* db.py: the applications table and the admins table.                     *)
(***************************************************************************)
\* the one admin row create_tables seeds
admins == {[username |-> "admin", password |-> "admin123"]}

\* the prefixes dict of generate_app_id and its default
prefixes(service) ==
  IF service = "license" THEN <<"L","I","C">>
  ELSE IF service = "certificate" THEN <<"C","R","T">>
  ELSE IF service = "complaint" THEN <<"C","M","P">>
  ELSE <<"A","P","P">>

\* a prefix cut from the service name instead of looked up
generate_app_id_CutPrefix(service, random_part) ==
  upper(SubSeq(CASE service = "license" -> Lit_license
                 [] service = "certificate" -> Lit_certificate
                 [] service = "complaint" -> Lit_complaint
                 [] OTHER -> <<"p","a","s","s","p","o","r","t">>, 1, 3))
    \o <<"-">> \o random_part

\* random_part is the outcome of random.choices(...), an input of the model
generate_app_id(service, random_part) == prefixes(service) \o <<"-">> \o random_part

\* a schema whose app_id column is not declared UNIQUE
UniqueViolation_Undeclared(apps, app_id) == FALSE

\* the UNIQUE constraint on applications.app_id
UniqueViolation(apps, app_id) == \E i \in 1..Len(apps) : apps[i].app_id = app_id

\* the INSERT with phone and email bound in the wrong order
NewRow_SwappedColumns(apps, app_id, service, data, now) ==
  [id         |-> Len(apps) + 1,
   app_id     |-> app_id,
   service    |-> service,
   name       |-> Get(data, "name", EmptyStr),
   age        |-> Get(data, "age", EmptyStr),
   phone      |-> Get(data, "email", EmptyStr),
   email      |-> Get(data, "phone", EmptyStr),
   address    |-> Get(data, "address", EmptyStr),
   details    |-> Get(data, "details", EmptyStr),
   status     |-> "Pending",
   created_at |-> now,
   updated_at |-> now]

\* the INSERT of save_application: the row it writes
NewRow(apps, app_id, service, data, now) ==
  [id         |-> Len(apps) + 1,
   app_id     |-> app_id,
   service    |-> service,
   name       |-> Get(data, "name", EmptyStr),
   age        |-> Get(data, "age", EmptyStr),
   phone      |-> Get(data, "phone", EmptyStr),
   email      |-> Get(data, "email", EmptyStr),
   address    |-> Get(data, "address", EmptyStr),
   details    |-> Get(data, "details", EmptyStr),
   status     |-> "Pending",
   created_at |-> now,
   updated_at |-> now]

\* save_application.  The INSERT raises sqlite3.OperationalError (database is
\* locked) while another connection holds the write lock, and
\* sqlite3.IntegrityError when it violates the UNIQUE constraint; in both
\* cases nothing is committed, and in the second the connection is left open
\* inside its write transaction.
save_application(apps, lock, service, data, random_part, now) ==
  LET app_id == generate_app_id(service, random_part)
  IN  IF lock
      THEN [raised |-> TRUE, error |-> "OperationalError", app_id |-> app_id,
            applications |-> apps, locked |-> lock]
      ELSE IF UniqueViolation(apps, app_id)
      THEN [raised |-> TRUE, error |-> "IntegrityError", app_id |-> app_id,
            applications |-> apps, locked |-> TRUE]
      ELSE [raised |-> FALSE, error |-> "", app_id |-> app_id,
            applications |-> Append(apps, NewRow(apps, app_id, service, data, now)),
            locked |-> lock]

None == [none |-> TRUE]

\* get_application: the first row whose app_id equals the argument, or None
get_application(apps, app_id) ==
  LET hits == {i \in 1..Len(apps) : apps[i].app_id = app_id}
  IN  IF hits = {} THEN None ELSE apps[SetMin(hits)]

\* an UPDATE without its WHERE clause
update_status_NoWhere(apps, lock, app_id, new_status, now) ==
  IF lock
  THEN [raised |-> TRUE, error |-> "OperationalError", applications |-> apps]
  ELSE [raised |-> FALSE, error |-> "",
        applications |->
          [i \in 1..Len(apps) |->
             [apps[i] EXCEPT !.status = new_status, !.updated_at = now]]]

\* update_status: the UPDATE ... WHERE app_id = ?, which raises
\* sqlite3.OperationalError while another connection holds the write lock
update_status(apps, lock, app_id, new_status, now) ==
  IF lock
  THEN [raised |-> TRUE, error |-> "OperationalError", applications |-> apps]
  ELSE [raised |-> FALSE, error |-> "",
        applications |->
          [i \in 1..Len(apps) |->
             IF apps[i].app_id = app_id
             THEN [apps[i] EXCEPT !.status = new_status, !.updated_at = now]
             ELSE apps[i]]]

\* check_admin: a row of admins with that username and that password
check_admin(username, password) ==
  \E a \in admins : a.username = username /\ a.password = password

(***************************************************************************)
(* app.py: chatbot_response, one operator per branch on step.  Each takes  *)
(* the session_data dict and yields the reply and the dict as the branch   *)
(* leaves it.  A reply is the record of which text was returned and of the *)
(* values formatted into it.                                               *)
(***************************************************************************)
Ret(reply, session_data) ==
  [raised |-> FALSE, reply |-> reply, session_data |-> session_data]

Reprompt(step) == [kind |-> "reprompt", at |-> step]

\* a start step that knows the word "status" only
Step_start_StatusOnly(msg, session_data) ==
  IF In(Lit_apply, msg) \/ In(Lit_hello, msg) \/ In(Lit_hi, msg) \/ In(Lit_start, msg)
  THEN Ret([kind |-> "menu"], Put(session_data, "step", "choose_service"))
  ELSE IF In(Lit_status, msg)
  THEN Ret([kind |-> "ask_app_id"], Put(session_data, "step", "check_status"))
  ELSE Ret(Reprompt("start"), session_data)

\* ---- STEP: start ----
Step_start(msg, session_data) ==
  IF In(Lit_apply, msg) \/ In(Lit_hello, msg) \/ In(Lit_hi, msg) \/ In(Lit_start, msg)
  THEN Ret([kind |-> "menu"], Put(session_data, "step", "choose_service"))
  ELSE IF In(Lit_status, msg) \/ In(Lit_check, msg)
  THEN Ret([kind |-> "ask_app_id"], Put(session_data, "step", "check_status"))
  ELSE Ret(Reprompt("start"), session_data)

\* a choice of service that moves on without recording the service
Selected_NoService(service, session_data) ==
  Ret([kind |-> "selected", service |-> service],
      Put(session_data, "step", "ask_name"))

Selected(service, session_data) ==
  Ret([kind |-> "selected", service |-> service],
      Put(Put(session_data, "service", service), "step", "ask_name"))

\* ---- STEP: choose_service ----
Step_choose_service(msg, session_data) ==
  IF msg \in {Lit_1, Lit_license} THEN Selected("license", session_data)
  ELSE IF msg \in {Lit_2, Lit_certificate} THEN Selected("certificate", session_data)
  ELSE IF msg \in {Lit_3, Lit_complaint} THEN Selected("complaint", session_data)
  ELSE Ret(Reprompt("choose_service"), session_data)

\* a Collect that starts the answers dict afresh at every field
Collect_Fresh(session_data, answers, field, value, next) ==
  Put(Put(session_data, "answers", Put(EmptyDict, field, value)), "step", next)

\* answers[field] = value; session_data["answers"] = answers;
\* session_data["step"] = next
Collect(session_data, answers, field, value, next) ==
  Put(Put(session_data, "answers", Put(answers, field, value)), "step", next)

\* ---- STEP: ask_name ----
Step_ask_name(user_message, session_data, answers) ==
  IF Len(strip(user_message)) < 2
  THEN Ret(Reprompt("ask_name"), session_data)
  ELSE Ret([kind |-> "ask_age", name |-> title(strip(user_message))],
           Collect(session_data, answers, "name", title(strip(user_message)), "ask_age"))

\* ---- STEP: ask_age ----
Step_ask_age(user_message, session_data, answers) ==
  IF ~isdigit(strip(user_message))
  THEN Ret(Reprompt("ask_age"), session_data)
  ELSE Ret([kind |-> "ask_phone"],
           Collect(session_data, answers, "age", strip(user_message), "ask_phone"))

\* ask_phone measuring the message as typed, spaces and hyphens included
Step_ask_phone_RawLength(user_message, session_data, answers) ==
  IF Len(strip(user_message)) < 7
  THEN Ret(Reprompt("ask_phone"), session_data)
  ELSE Ret([kind |-> "ask_email"],
           Collect(session_data, answers, "phone", strip(user_message), "ask_email"))

\* ---- STEP: ask_phone ----
Step_ask_phone(user_message, session_data, answers) ==
  LET phone == replace(replace(strip(user_message), " "), "-")
  IN  IF Len(phone) < 7
      THEN Ret(Reprompt("ask_phone"), session_data)
      ELSE Ret([kind |-> "ask_email"],
               Collect(session_data, answers, "phone", strip(user_message), "ask_email"))

\* ask_email storing the word "skip" as the email
Step_ask_email_KeepSkip(msg, user_message, session_data, answers) ==
  Ret([kind |-> "ask_address"],
      Collect(session_data, answers, "email", strip(user_message), "ask_address"))

\* ---- STEP: ask_email ----
Step_ask_email(msg, user_message, session_data, answers) ==
  Ret([kind |-> "ask_address"],
      Collect(session_data, answers, "email",
              IF msg = Lit_skip THEN EmptyStr ELSE strip(user_message),
              "ask_address"))

\* ---- STEP: ask_address ----
Step_ask_address(user_message, session_data, service, answers) ==
  IF Len(strip(user_message)) < 5
  THEN Ret(Reprompt("ask_address"), session_data)
  ELSE Ret([kind |-> "ask_details",
            question |-> IF service = "license" THEN "license"
                         ELSE IF service = "certificate" THEN "certificate"
                         ELSE "complaint"],
           Collect(session_data, answers, "address", strip(user_message), "ask_details"))

\* ---- STEP: ask_details ----
Step_ask_details(user_message, session_data, service, answers) ==
  IF Len(strip(user_message)) < 2
  THEN Ret(Reprompt("ask_details"), session_data)
  ELSE LET filled == Put(answers, "details", strip(user_message))
       IN  Ret([kind |-> "summary", service |-> service, answers |-> filled,
                email_shown |-> IF Get(filled, "email", EmptyStr) = EmptyStr
                                THEN "Not provided" ELSE "email"],
               Collect(session_data, answers, "details", strip(user_message), "confirm"))

\* a reset that forgets to clear the answers
FullReset_KeepAnswers(session_data) ==
  Put(Put(session_data, "step", "start"), "service", "")

\* the reset of the session at the end of a conversation
FullReset(session_data) ==
  Put(Put(Put(session_data, "step", "start"), "service", ""), "answers", EmptyDict)

\* a confirm step that catches the failure of save_application and starts
\* the conversation over
Step_confirm_ResetOnFailure(msg, session_data, service, answers, apps, lock, random_part, now) ==
  IF msg \in {Lit_yes, Lit_y, Lit_confirm, Lit_submit}
  THEN LET saved == save_application(apps, lock, service, answers, random_part, now)
       IN  IF saved.raised
           THEN [raised |-> FALSE, reply |-> [kind |-> saved.error],
                 session_data |-> FullReset(session_data), applications |-> apps,
                 locked |-> saved.locked]
           ELSE [raised |-> FALSE,
                 reply |-> [kind |-> "submitted", app_id |-> saved.app_id],
                 session_data |-> FullReset(session_data),
                 applications |-> saved.applications, locked |-> saved.locked]
  ELSE IF msg \in {Lit_no, Lit_n, Lit_restart}
  THEN [raised |-> FALSE, reply |-> [kind |-> "cancelled"],
        session_data |-> FullReset(session_data), applications |-> apps,
        locked |-> lock]
  ELSE [raised |-> FALSE, reply |-> Reprompt("confirm"),
        session_data |-> session_data, applications |-> apps, locked |-> lock]

\* ---- STEP: confirm ----
Step_confirm(msg, session_data, service, answers, apps, lock, random_part, now) ==
  IF msg \in {Lit_yes, Lit_y, Lit_confirm, Lit_submit}
  THEN LET saved == save_application(apps, lock, service, answers, random_part, now)
       IN  IF saved.raised
           THEN [raised |-> TRUE, reply |-> [kind |-> saved.error],
                 session_data |-> session_data, applications |-> apps,
                 locked |-> saved.locked]
           ELSE [raised |-> FALSE,
                 reply |-> [kind |-> "submitted", app_id |-> saved.app_id],
                 session_data |-> FullReset(session_data),
                 applications |-> saved.applications, locked |-> saved.locked]
  ELSE IF msg \in {Lit_no, Lit_n, Lit_restart}
  THEN [raised |-> FALSE, reply |-> [kind |-> "cancelled"],
        session_data |-> FullReset(session_data), applications |-> apps,
        locked |-> lock]
  ELSE [raised |-> FALSE, reply |-> Reprompt("confirm"),
        session_data |-> session_data, applications |-> apps, locked |-> lock]

\* the status_icons dict and its default
status_icons(status) ==
  IF status \in {"Pending", "In Review", "Approved", "Rejected"} THEN status ELSE "default"

\* check_status formatting the row without testing it for None
Step_check_status_NoNoneTest(user_message, session_data, apps) ==
  LET app_id == upper(strip(user_message))
      result == get_application(apps, app_id)
  IN  IF result # None
      THEN Ret([kind |-> "found", app_id |-> result.app_id, service |-> result.service,
                name |-> result.name, status |-> result.status,
                icon |-> status_icons(result.status),
                created_at |-> result.created_at, updated_at |-> result.updated_at],
               Put(session_data, "step", "start"))
      ELSE [raised |-> TRUE, reply |-> [kind |-> "TypeError"],
            session_data |-> Put(session_data, "step", "start")]

\* check_status going back to start only when the application is found
Step_check_status_StayOnMiss(user_message, session_data, apps) ==
  LET app_id == upper(strip(user_message))
      result == get_application(apps, app_id)
  IN  IF result # None
      THEN Ret([kind |-> "found", app_id |-> result.app_id, service |-> result.service,
                name |-> result.name, status |-> result.status,
                icon |-> status_icons(result.status),
                created_at |-> result.created_at, updated_at |-> result.updated_at],
               Put(session_data, "step", "start"))
      ELSE Ret([kind |-> "not_found", app_id |-> app_id], session_data)

\* ---- STEP: check_status ----
Step_check_status(user_message, session_data, apps) ==
  LET app_id == upper(strip(user_message))
      result == get_application(apps, app_id)
  IN  IF result # None
      THEN Ret([kind |-> "found", app_id |-> result.app_id, service |-> result.service,
                name |-> result.name, status |-> result.status,
                icon |-> status_icons(result.status),
                created_at |-> result.created_at, updated_at |-> result.updated_at],
               Put(session_data, "step", "start"))
      ELSE Ret([kind |-> "not_found", app_id |-> app_id],
               Put(session_data, "step", "start"))

\* the result of a branch that does not write to the database
NoWrite(r, apps, lock) ==
  [raised |-> r.raised, reply |-> r.reply, session_data |-> r.session_data,
   applications |-> apps, locked |-> lock]

\* chatbot_response(user_message, session_data), with the table it reads and
\* writes, the lock on the database, the random suffix it would draw and the
\* clock reading it would take
chatbot_response(user_message, session_data, apps, lock, random_part, now) ==
  LET step    == Get(session_data, "step", "start")
      service == Get(session_data, "service", "")
      answers == Get(session_data, "answers", EmptyDict)
      msg     == lower(strip(user_message))
  IN  IF step = "start" THEN NoWrite(Step_start(msg, session_data), apps, lock)
      ELSE IF step = "choose_service"
        THEN NoWrite(Step_choose_service(msg, session_data), apps, lock)
      ELSE IF step = "ask_name"
        THEN NoWrite(Step_ask_name(user_message, session_data, answers), apps, lock)
      ELSE IF step = "ask_age"
        THEN NoWrite(Step_ask_age(user_message, session_data, answers), apps, lock)
      ELSE IF step = "ask_phone"
        THEN NoWrite(Step_ask_phone(user_message, session_data, answers), apps, lock)
      ELSE IF step = "ask_email"
        THEN NoWrite(Step_ask_email(msg, user_message, session_data, answers), apps, lock)
      ELSE IF step = "ask_address"
        THEN NoWrite(Step_ask_address(user_message, session_data, service, answers),
                     apps, lock)
      ELSE IF step = "ask_details"
        THEN NoWrite(Step_ask_details(user_message, session_data, service, answers),
                     apps, lock)
      ELSE IF step = "confirm"
        THEN Step_confirm(msg, session_data, service, answers, apps, lock,
                          random_part, now)
      ELSE IF step = "check_status"
        THEN NoWrite(Step_check_status(user_message, session_data, apps), apps, lock)
      ELSE NoWrite(Ret([kind |-> "fallback"], session_data), apps, lock)

(***************************************************************************)
(* The inputs of the model: browser sessions, user messages, the suffixes  *)
(* random.choices can draw, and the fields of the admin forms.             *)
(***************************************************************************)
Sessions == {"s1", "s2"}

Msg_hi == <<"h","i">>
Msg_1 == <<"1">>
Msg_Y == <<" ","Y"," ">>
Msg_n == <<"n">>
Msg_empty == <<>>
Msg_lic_status == <<"l","i","c","-","s","t","a","t","u","s">>
Msg_HELLO == <<" ","H","E","L","L","O"," ">>
Msg_apply == <<"a","p","p","l","y">>
Msg_status == <<"s","t","a","t","u","s">>
Msg_Check == <<"C","h","e","c","k">>
Msg_check_this == <<"c","h","e","c","k"," ","t","h","i","s">>
Msg_this == <<"t","h","i","s">>
Msg_help == <<"h","e","l","p">>
Msg_license == <<"l","i","c","e","n","s","e">>
Msg_2sp == <<" ","2"," ">>
Msg_Certificate == <<"C","e","r","t","i","f","i","c","a","t","e">>
Msg_3 == <<"3">>
Msg_4 == <<"4">>
Msg_x == <<" ","x"," ">>
Msg_Jane_Doe == <<"J","a","n","e"," ","D","o","e">>
Msg_mcDonald == <<"m","c","D","o","n","a","l","d"," ","o","'","n","e","i","l">>
Msg_30 == <<"3","0">>
Msg_30sp == <<" ","3","0"," ">>
Msg_3a == <<"3","a">>
Msg_twenty == <<"t","w","e","n","t","y">>
Msg_phone == <<"9","8","7","6","5","4","3","2","1","0">>
Msg_short_phone == <<"1","2","-","3"," ","4","5">>
Msg_dash_phone == <<"1","2","3","-","4","5","6","7">>
Msg_skip == <<"s","k","i","p">>
Msg_SKIP == <<" ","S","K","I","P"," ">>
Msg_mail == <<"a","@","b",".","c">>
Msg_address == <<"2","2","1","B"," ","B","a","k","e","r"," ","S","t","r","e","e","t">>
Msg_abcd == <<"a","b","c","d">>
Msg_details == <<"D","r","i","v","i","n","g"," ","l","i","c","e","n","s","e">>
Msg_yes == <<"y","e","s">>
Msg_Submit == <<"S","u","b","m","i","t">>
Msg_no == <<"n","o">>
Msg_restart == <<"r","e","s","t","a","r","t">>
Msg_maybe == <<"m","a","y","b","e">>
Msg_LIC_STATUS == <<"L","I","C","-","S","T","A","T","U","S">>
Msg_LIC_ZZZZZZ == <<"L","I","C","-","Z","Z","Z","Z","Z","Z">>

\* the messages of the conversations explored in full
Messages == {Msg_hi, Msg_1, Msg_Y, Msg_n, Msg_empty, Msg_lic_status}

\* the messages tried at every step of a conversation
TurnMessages ==
  {Msg_hi, Msg_1, Msg_Y, Msg_n, Msg_empty, Msg_lic_status, Msg_HELLO, Msg_apply,
   Msg_status, Msg_Check, Msg_check_this, Msg_this, Msg_help, Msg_license,
   Msg_2sp, Msg_Certificate, Msg_3, Msg_4, Msg_x, Msg_Jane_Doe, Msg_mcDonald,
   Msg_30, Msg_30sp, Msg_3a, Msg_twenty, Msg_phone, Msg_short_phone,
   Msg_dash_phone, Msg_skip, Msg_SKIP, Msg_mail, Msg_address, Msg_abcd,
   Msg_details, Msg_yes, Msg_Submit, Msg_no, Msg_restart, Msg_maybe,
   Msg_LIC_STATUS, Msg_LIC_ZZZZZZ}

\* the suffixes random.choices draws: two, or always the same one
RandomParts == {<<"S","T","A","T","U","S">>, <<"A","B","1","2","C","D">>}

SameRandomPart == {<<"S","T","A","T","U","S">>}

Services == {"license", "certificate", "complaint"}

Usernames == {"admin", "guest"}

Passwords == {"admin123", "letmein"}

\* the services and answers handed to save_application directly
StoreServices == {"license", "passport"}

StoreData ==
  {[name |-> Msg_Jane_Doe, age |-> Msg_30, phone |-> Msg_phone, email |-> EmptyStr,
    address |-> Msg_address, details |-> Msg_details],
   [name |-> Msg_mcDonald, email |-> Msg_mail]}

FormAppIds ==
  {generate_app_id(sv, rp) : sv \in StoreServices, rp \in SameRandomPart}
    \cup {EmptyStr}

FormStatuses == {"Approved", "Archived", ""}

(***************************************************************************)
(* app.py: the routes.  session[s] is the Flask session of browser s.      *)
(***************************************************************************)
\* the session_data dict chat() loads from the session
LoadSession(sess) ==
  [step    |-> Get(sess, "step", "start"),
   service |-> Get(sess, "service", ""),
   answers |-> Get(sess, "answers", EmptyDict)]

\* the three assignments of chat() that save the updated session
StoreSession(sess, updated_session) ==
  Put(Put(Put(sess, "step", updated_session["step"]),
          "service", updated_session["service"]),
      "answers", updated_session["answers"])

\* a chat() that keeps the conversation in one dict shared by every browser
chat_SharedSession(s, user_message, random_part) ==
  LET session_data == LoadSession(session[s])
      r == chatbot_response(user_message, session_data, applications, locked,
                            random_part, clock)
  IN  /\ session' = IF r.raised THEN session
                    ELSE [t \in Sessions |-> StoreSession(session[t], r.session_data)]
      /\ applications' = r.applications
      /\ locked' = r.locked
      /\ last' = [op |-> "chat", sid |-> s, step |-> session_data["step"],
                  message |-> user_message, raised |-> r.raised, reply |-> r.reply]
      /\ UNCHANGED clock

\* POST /chat
chat(s, user_message, random_part) ==
  LET session_data == LoadSession(session[s])
      r == chatbot_response(user_message, session_data, applications, locked,
                            random_part, clock)
  IN  /\ session' = IF r.raised THEN session
                    ELSE [session EXCEPT ![s] = StoreSession(@, r.session_data)]
      /\ applications' = r.applications
      /\ locked' = r.locked
      /\ last' = [op |-> "chat", sid |-> s, step |-> session_data["step"],
                  message |-> user_message, raised |-> r.raised, reply |-> r.reply]
      /\ UNCHANGED clock

\* a reset that only sends the conversation back to its first step
reset_StepOnly(s) ==
  /\ session' = [session EXCEPT ![s] = Put(@, "step", "start")]
  /\ last' = [op |-> "reset", sid |-> s]
  /\ UNCHANGED <<applications, locked, clock>>

\* POST /reset
reset(s) ==
  /\ session' = [session EXCEPT ![s] = EmptyDict]
  /\ last' = [op |-> "reset", sid |-> s]
  /\ UNCHANGED <<applications, locked, clock>>

\* POST /admin
admin_login(s, username, password) ==
  /\ session' = IF check_admin(username, password)
                THEN [session EXCEPT ![s] = Put(@, "admin_logged_in", TRUE)]
                ELSE session
  /\ last' = [op |-> "admin_login", sid |-> s, username |-> username,
              password |-> password, ok |-> check_admin(username, password)]
  /\ UNCHANGED <<applications, locked, clock>>

\* an update route that does not look at the login flag
admin_update_NoGate(s, app_id, new_status) ==
  LET allowed == TRUE
      called  == allowed /\ app_id # EmptyStr /\ new_status # ""
      updated == update_status(applications, locked, app_id, new_status, clock)
  IN  /\ applications' = IF called THEN updated.applications ELSE applications
      /\ last' = [op |-> "admin_update", sid |-> s, app_id |-> app_id,
                  status |-> new_status, allowed |-> allowed, called |-> called,
                  raised |-> called /\ updated.raised,
                  matched |-> \E i \in 1..Len(applications) :
                                applications[i].app_id = app_id]
      /\ UNCHANGED <<session, locked, clock>>

\* POST /admin/update
admin_update(s, app_id, new_status) ==
  LET allowed == Get(session[s], "admin_logged_in", FALSE)
      called  == allowed /\ app_id # EmptyStr /\ new_status # ""
      updated == update_status(applications, locked, app_id, new_status, clock)
  IN  /\ applications' = IF called THEN updated.applications ELSE applications
      /\ last' = [op |-> "admin_update", sid |-> s, app_id |-> app_id,
                  status |-> new_status, allowed |-> allowed, called |-> called,
                  raised |-> called /\ updated.raised,
                  matched |-> \E i \in 1..Len(applications) :
                                applications[i].app_id = app_id]
      /\ UNCHANGED <<session, locked, clock>>

\* GET /admin/logout
admin_logout(s) ==
  /\ session' = [session EXCEPT ![s] = Pop(@, "admin_logged_in")]
  /\ last' = [op |-> "admin_logout", sid |-> s]
  /\ UNCHANGED <<applications, locked, clock>>

\* the wall clock, read by datetime.now() at one-second resolution
Tick ==
  /\ clock < MaxClock
  /\ clock' = clock + 1
  /\ last' = [op |-> "tick"]
  /\ UNCHANGED <<session, applications, locked>>

\* the garbage collector finalizes the connection a failed INSERT left open:
\* its transaction is rolled back and the write lock released
CollectGarbage ==
  /\ locked
  /\ locked' = FALSE
  /\ last' = [op |-> "gc"]
  /\ UNCHANGED <<session, applications, clock>>

Init ==
  /\ session = [s \in Sessions |-> EmptyDict]
  /\ applications = <<>>
  /\ locked = FALSE
  /\ clock = 0
  /\ last = [op |-> "init"]

Next ==
  \/ \E m \in Messages, rp \in SameRandomPart : chat("s1", m, rp)
  \/ reset("s1")
  \/ CollectGarbage
  \/ Tick

Spec == Init /\ [][Next]_vars

(***************************************************************************)
(* One turn of chatbot_response at every point of a conversation: the      *)
(* session is the one left by a prefix of a scripted conversation, the     *)
(* table is empty or holds one application (and then may be locked by a    *)
(* save that was refused since), and the message is any of TurnMessages.   *)
(***************************************************************************)
Script(choice) ==
  <<Msg_hi, choice, Msg_Jane_Doe, Msg_30, Msg_phone, Msg_skip, Msg_address, Msg_details>>

Scripts == {Script(Msg_1), Script(Msg_2sp), Script(Msg_3), <<Msg_status>>}

RECURSIVE RunScript(_, _)
\* the Flask session after the first k turns of script, from a fresh session
RunScript(script, k) ==
  IF k = 0 THEN EmptyDict
  ELSE LET before == RunScript(script, k - 1)
           r == chatbot_response(script[k], LoadSession(before), <<>>, FALSE,
                                 <<"S","T","A","T","U","S">>, 0)
       IN  StoreSession(before, r.session_data)

TurnSessions == UNION {{RunScript(sc, k) : k \in 0..Len(sc)} : sc \in Scripts}

TurnStores ==
  {<<>>,
   save_application(<<>>, FALSE, "license",
                    LoadSession(RunScript(Script(Msg_1), 8)).answers,
                    <<"S","T","A","T","U","S">>, 0).applications}

TurnInit ==
  /\ \E sess \in TurnSessions :
       session = [s \in Sessions |-> IF s = "s1" THEN sess ELSE EmptyDict]
  /\ applications \in TurnStores
  /\ locked \in (IF applications = <<>> THEN {FALSE} ELSE BOOLEAN)
  /\ clock \in 0..MaxClock
  /\ last = [op |-> "init"]

TurnNext ==
  \E m \in TurnMessages, rp \in RandomParts : last.op = "init" /\ chat("s1", m, rp)

SpecTurn == TurnInit /\ [][TurnNext]_vars

(***************************************************************************)
(* The store on its own: save_application called with services and answers *)
(* drawn from StoreServices and StoreData, the admin routes of browser s1, *)
(* and the clock.                                                          *)
(***************************************************************************)
\* a call of db.save_application(service, data)
Save(service, data, random_part) ==
  LET saved == save_application(applications, locked, service, data, random_part,
                                clock)
  IN  /\ applications' = saved.applications
      /\ locked' = saved.locked
      /\ last' = [op |-> "save", service |-> service, data |-> data,
                  raised |-> saved.raised, error |-> saved.error,
                  app_id |-> saved.app_id]
      /\ UNCHANGED <<session, clock>>

StoreNext ==
  \/ \E sv \in StoreServices, d \in StoreData, rp \in SameRandomPart : Save(sv, d, rp)
  \/ \E u \in Usernames, p \in Passwords : admin_login("s1", u, p)
  \/ \E a \in FormAppIds, st \in FormStatuses : admin_update("s1", a, st)
  \/ admin_logout("s1")
  \/ Tick
  \/ CollectGarbage

SpecStore == Init /\ [][StoreNext]_vars

(***************************************************************************)
(* The session of browser s1 as chat() loads it before a step and after.   *)
(***************************************************************************)
Before == LoadSession(session["s1"])

After == LoadSession(session'["s1"])

Current == LoadSession(session["s1"])

FreshSession == [step |-> "start", service |-> "", answers |-> EmptyDict]

StepEnum ==
  {"start", "choose_service", "ask_name", "ask_age", "ask_phone", "ask_email",
   "ask_address", "ask_details", "confirm", "check_status"}

Fields == {"name", "age", "phone", "email", "address", "details"}

\* the message as routing sees it: trimmed, case-insensitive
Routed(m) == lower(strip(m))

(***************************************************************************)
(* C1: the transition table's validation.                                  *)
(***************************************************************************)
C1Steps ==
  {"start", "choose_service", "ask_name", "ask_age", "ask_phone", "ask_address",
   "ask_details"}

StartWords == {Lit_apply, Lit_hello, Lit_hi, Lit_start}

StatusWords == {Lit_status, Lit_check}

\* the "accepts" column of the transition table
Accepts(step, m) ==
  CASE step = "start" ->
         \E w \in StartWords \cup StatusWords : In(w, Routed(m))
    [] step = "choose_service" ->
         Routed(m) \in {Lit_1, Lit_license, Lit_2, Lit_certificate, Lit_3, Lit_complaint}
    [] step = "ask_name" -> Len(strip(m)) >= 2
    [] step = "ask_age" ->
         Len(strip(m)) >= 1 /\ \A i \in 1..Len(strip(m)) : strip(m)[i] \in Digits
    [] step = "ask_phone" ->
         Cardinality({i \in 1..Len(strip(m)) : strip(m)[i] \notin {" ", "-"}}) >= 7
    [] step = "ask_address" -> Len(strip(m)) >= 5
    [] step = "ask_details" -> Len(strip(m)) >= 2

\* the "next step" column: the successors of the rows that accept m
Successors(step, m) ==
  CASE step = "start" ->
         {"choose_service" : w \in {w \in StartWords : In(w, Routed(m))}}
         \cup {"check_status" : w \in {w \in StatusWords : In(w, Routed(m))}}
    [] step = "choose_service" -> {"ask_name"}
    [] step = "ask_name" -> {"ask_age"}
    [] step = "ask_age" -> {"ask_phone"}
    [] step = "ask_phone" -> {"ask_email"}
    [] step = "ask_address" -> {"ask_details"}
    [] step = "ask_details" -> {"confirm"}

\* the answers key a step collects ("" when it collects none)
FieldOf(step) ==
  CASE step = "ask_name" -> "name"
    [] step = "ask_age" -> "age"
    [] step = "ask_phone" -> "phone"
    [] step = "ask_email" -> "email"
    [] step = "ask_address" -> "address"
    [] step = "ask_details" -> "details"
    [] OTHER -> ""

\* between pre and post nothing is written but the field of step
OnlyFieldWritten(step, pre, post) ==
  /\ step # "choose_service" => post.service = pre.service
  /\ step = "choose_service" => post.service \in Services
  /\ IF FieldOf(step) = ""
     THEN post.answers = pre.answers
     ELSE /\ DOMAIN post.answers = (DOMAIN pre.answers) \cup {FieldOf(step)}
          /\ \A k \in (DOMAIN pre.answers) \ {FieldOf(step)} :
               post.answers[k] = pre.answers[k]

C1_TurnOk ==
  (last'.op = "chat" /\ Before.step \in C1Steps) =>
     /\ ~last'.raised
     /\ applications' = applications
     /\ IF Accepts(Before.step, last'.message)
        THEN /\ After.step \in Successors(Before.step, last'.message)
             /\ last'.reply.kind # "reprompt"
             /\ OnlyFieldWritten(Before.step, Before, After)
        ELSE /\ last'.reply = [kind |-> "reprompt", at |-> Before.step]
             /\ After = Before

\* C1: at each of the steps start, choose_service, ask_name, ask_age,
\* ask_phone, ask_address and ask_details, a message that fails the step's
\* validation gets a reprompt and leaves step, service and answers as they
\* were, and a message that passes moves step to the step's successor in
\* the transition table and writes only the field of that step.
C1_Validation == [][C1_TurnOk]_vars

\* Scenario E: "twenty" at ask_age was reprompted and the step is still ask_age
C1_Witness ==
  /\ last.op = "chat" /\ last.step = "ask_age" /\ last.message = Msg_twenty
  /\ last.reply.kind = "reprompt"
  /\ Current.step = "ask_age" /\ DOMAIN Current.answers = {"name"}

(***************************************************************************)
(* C2: the commit at confirm.                                              *)
(***************************************************************************)
YesWords == {Lit_yes, Lit_y, Lit_confirm, Lit_submit}

\* the step being taken is a chat turn at confirm with a yes message
ConfirmYes ==
  /\ last'.op = "chat" /\ last'.sid = "s1"
  /\ Before.step = "confirm"
  /\ Routed(last'.message) \in YesWords

\* exactly one row is appended, it holds the session's service and answers,
\* its id is in the reply, and the session is reset
Committed ==
  /\ ~last'.raised
  /\ Len(applications') = Len(applications) + 1
  /\ SubSeq(applications', 1, Len(applications)) = applications
  /\ LET row == applications'[Len(applications')]
     IN  /\ row.service = Before.service
         /\ \A f \in Fields : f \in DOMAIN Before.answers /\ row[f] = Before.answers[f]
         /\ row.status = "Pending"
         /\ row.created_at = row.updated_at
         /\ last'.reply = [kind |-> "submitted", app_id |-> row.app_id]
  /\ After = FreshSession

\* the ids generate_app_id can draw for a service within RandomParts
DrawableIds(service) == {generate_app_id(service, rp) : rp \in RandomParts}

StoredIds(apps) == {apps[i].app_id : i \in 1..Len(apps)}

\* save_application raised, on a drawn id that is already stored or on a
\* database another connection has locked: nothing is stored and the session
\* is as it was
Refused ==
  /\ last'.raised
  /\ \/ /\ last'.reply.kind = "IntegrityError"
        /\ ~locked
        /\ DrawableIds(Before.service) \cap StoredIds(applications) # {}
     \/ /\ last'.reply.kind = "OperationalError"
        /\ locked
  /\ applications' = applications
  /\ session' = session

\* C2 as claimed: a turn at step=confirm with a message in {yes, y, confirm,
\* submit} (trimmed, case-insensitive) adds exactly one Application holding the
\* session's service and answers, Pending, created_at = updated_at, returns
\* its app_id and leaves the session at {start, "", {}}.
C2_Original == [][ConfirmYes => Committed]_vars

\* C2: a turn at step=confirm with a yes message either commits (one row with
\* the session's service and six answers, Pending, created_at = updated_at,
\* its app_id in the reply, session reset to {start, "", {}}), or, when
\* save_application fails (the app_id drawn is already stored, or the
\* database is locked by the connection an earlier failed save left open),
\* raises and changes neither the table nor the session; it commits whenever
\* the database is not locked and no drawable id of the service is stored.
C2_Commit ==
  [][ConfirmYes =>
       /\ Committed \/ Refused
       /\ (~locked /\ DrawableIds(Before.service) \cap StoredIds(applications) = {})
            => Committed]_vars

\* " Y " at confirm committed a second application next to a stored one
C2_Witness ==
  /\ last.op = "chat" /\ last.step = "confirm" /\ ~last.raised
  /\ last.message = Msg_Y
  /\ last.reply.kind = "submitted"
  /\ Len(applications) = 2
  /\ applications[2].app_id = last.reply.app_id
  /\ applications[2].service = "certificate"
  /\ applications[2].name = Msg_Jane_Doe
  /\ Current = FreshSession

(***************************************************************************)
(* A session cookie whose step is not one of the ten the code tests for    *)
(* (written by another version of the application), and one turn on it.    *)
(***************************************************************************)
LegacySteps == {"ask_mail", "done", "START"}

LegacySessions ==
  {[step |-> st, service |-> sv, answers |-> an] :
     st \in LegacySteps, sv \in {"", "license"},
     an \in {EmptyDict, [name |-> Msg_Jane_Doe]}}

LegacyInit ==
  /\ \E sess \in LegacySessions :
       session = [s \in Sessions |-> IF s = "s1" THEN sess ELSE EmptyDict]
  /\ applications \in TurnStores
  /\ locked = FALSE
  /\ clock = 0
  /\ last = [op |-> "init"]

LegacyNext ==
  \E m \in TurnMessages, rp \in RandomParts : last.op = "init" /\ chat("s1", m, rp)

SpecLegacy == LegacyInit /\ [][LegacyNext]_vars

\* C3: a session whose step is not one of the ten enum members is treated as
\* step=start: the turn replies and moves as the same message at step=start
\* would, so the resulting step is start, choose_service or check_status.
C3_TreatedAsStart ==
  (last.op = "chat" /\ last.step \notin StepEnum) =>
     LET asStart == Step_start(Routed(last.message), FreshSession)
     IN  /\ Current.step \in {"start", "choose_service", "check_status"}
         /\ Current.step = asStart.session_data["step"]
         /\ last.reply = asStart.reply

(***************************************************************************)
(* C4: the keys of answers at each step.                                   *)
(***************************************************************************)
KeysAt(step) ==
  CASE step \in {"start", "choose_service", "check_status", "ask_name"} -> {}
    [] step = "ask_age" -> {"name"}
    [] step = "ask_phone" -> {"name", "age"}
    [] step = "ask_email" -> {"name", "age", "phone"}
    [] step = "ask_address" -> {"name", "age", "phone", "email"}
    [] step = "ask_details" -> {"name", "age", "phone", "email", "address"}
    [] step = "confirm" -> Fields

\* C4: in every session state reachable from {start, "", {}} by chat turns
\* and resets, the step is one of the ten and the key set of answers is
\* exactly the set of fields of the steps already passed.
C4_AnswerKeys ==
  \A s \in Sessions :
     LET sd == LoadSession(session[s])
     IN  sd.step \in StepEnum /\ DOMAIN sd.answers = KeysAt(sd.step)

\* a second conversation has reached confirm with all six answers collected,
\* the email left empty
C4_Witness ==
  /\ last.op = "chat" /\ last.step = "ask_details"
  /\ Current.step = "confirm"
  /\ DOMAIN Current.answers = Fields
  /\ Current.answers["email"] = EmptyStr
  /\ Len(applications) = 1

(***************************************************************************)
(* C5: exceptions out of chatbot_response.                                 *)
(***************************************************************************)
\* C5 as claimed: chatbot_response never raises, for every message, session
\* state and store state.
C5_Original == last.op = "chat" => ~last.raised

\* C5: chatbot_response returns a (reply, state) pair for every message and
\* every session and store state, except at step=confirm with a yes message
\* when save_application fails: there its sqlite3.IntegrityError (the app_id
\* drawn is already stored) or sqlite3.OperationalError (the database is
\* locked) propagates.
C5_OnlyCommitRaises ==
  last.op = "chat" =>
     IF last.raised
     THEN /\ last.step = "confirm"
          /\ Routed(last.message) \in YesWords
          /\ last.reply.kind \in {"IntegrityError", "OperationalError"}
          /\ locked
          /\ last.reply.kind = "IntegrityError" =>
                DrawableIds(Current.service) \cap StoredIds(applications) # {}
     ELSE last.reply.kind \in
            {"menu", "ask_app_id", "reprompt", "selected", "ask_age", "ask_phone",
             "ask_email", "ask_address", "ask_details", "summary", "submitted",
             "cancelled", "found", "not_found"}

\* a lookup of an id that is not stored returned its not-found reply while
\* applications are stored
C5_Witness ==
  /\ last.op = "chat" /\ last.step = "check_status" /\ ~last.raised
  /\ last.reply.kind = "not_found"
  /\ Len(applications) >= 1

(***************************************************************************)
(* C6: the status lookup.                                                  *)
(***************************************************************************)
C6_TurnOk ==
  (last'.op = "chat" /\ Before.step = "check_status") =>
     /\ ~last'.raised
     /\ After.step = "start"
     /\ After.service = Before.service
     /\ After.answers = Before.answers
     /\ applications' = applications
     /\ IF upper(strip(last'.message)) \in StoredIds(applications)
        THEN last'.reply.kind = "found"
        ELSE last'.reply.kind = "not_found"

\* C6: a turn at step=check_status ends with step=start for every message,
\* whether or not the upper-cased, trimmed message is a stored app_id, and
\* leaves service, answers and every stored Application unchanged.
C6_LookupResets == [][C6_TurnOk]_vars

\* "lic-status" typed at check_status found the stored LIC-STATUS, the
\* database being locked
C6_Witness ==
  /\ last.op = "chat" /\ last.step = "check_status"
  /\ last.message = Msg_lic_status
  /\ last.reply.kind = "found"
  /\ last.reply.app_id = Msg_LIC_STATUS
  /\ locked
  /\ Current.step = "start"

(***************************************************************************)
(* C7: save, then lookup.                                                  *)
(***************************************************************************)
\* PREFIX-XXXXXX, PREFIX one of LIC, CRT, CMP, APP, six characters of A-Z0-9
WellFormedId(app_id) ==
  /\ Len(app_id) = 10
  /\ SubSeq(app_id, 1, 3) \in
       {<<"L","I","C">>, <<"C","R","T">>, <<"C","M","P">>, <<"A","P","P">>}
  /\ app_id[4] = "-"
  /\ \A i \in 5..10 : app_id[i] \in UpperSet \cup Digits

\* the step is a save that returned: the lookup of its id gives what was saved
SavedIsFound ==
  (last'.op = "save" /\ ~last'.raised) =>
     LET row == get_application(applications', last'.app_id)
     IN  /\ row # None
         /\ row.app_id = last'.app_id
         /\ WellFormedId(row.app_id)
         /\ row.service = last'.service
         /\ \A f \in Fields : row[f] = Get(last'.data, f, EmptyStr)
         /\ row.status = "Pending"
         /\ Len(applications') = Len(applications) + 1

\* the step is an update_status call on app_id
UpdateOf(app_id) ==
  last'.op = "admin_update" /\ last'.called /\ last'.app_id = app_id

\* whatever the step, the lookup of a stored id gives the same service and
\* answers as before, and the same status unless the step updates that id
FoundIsKept ==
  \A app_id \in StoredIds(applications) :
     LET old == get_application(applications, app_id)
         new == get_application(applications', app_id)
     IN  /\ new # None
         /\ new.app_id = old.app_id /\ new.service = old.service
         /\ \A f \in Fields : new[f] = old[f]
         /\ UpdateOf(app_id) \/ new.status = old.status

\* C7: save(service, answers) followed by lookup of the returned app_id, with
\* any other saves and status-preserving operations in between, returns a
\* record whose service and six fields are the saved ones (a missing answer
\* is stored as ""), whose status is Pending, and whose app_id has the form
\* PREFIX-XXXXXX with PREFIX in {LIC, CRT, CMP, APP}.
C7_RoundTrip == [][SavedIsFound /\ FoundIsKept]_vars

\* after a second save and an update of the second application, the first
\* is still found with what was saved and Pending
C7_Witness ==
  /\ Len(applications) = 2
  /\ last.op = "admin_update" /\ last.called /\ last.app_id = applications[2].app_id
  /\ applications[2].status = "Approved"
  /\ LET row == get_application(applications, <<"A","P","P","-","S","T","A","T","U","S">>)
     IN  /\ row # None /\ row.id = 1
         /\ row.service = "passport"
         /\ row.name = Msg_mcDonald /\ row.email = Msg_mail /\ row.phone = EmptyStr
         /\ row.status = "Pending"

(***************************************************************************)
(* C8: update_status on an id that is not stored.                          *)
(***************************************************************************)
\* C8: update_status with an app_id that matches no stored Application does
\* not raise, creates no row and leaves every stored Application, its status
\* and updated_at included, and the number of rows unchanged.
C8_UpdateMissing ==
  [][(last'.op = "admin_update" /\ last'.called
        /\ last'.app_id \notin StoredIds(applications))
     => ~last'.raised /\ applications' = applications]_vars

(***************************************************************************)
(* C9: the values of status.                                               *)
(***************************************************************************)
StatusEnum == {"Pending", "In Review", "Approved", "Rejected"}

\* C9: in every reachable store state the status of every stored Application
\* is one of Pending, In Review, Approved, Rejected.
C9_StatusEnum == \A i \in 1..Len(applications) : applications[i].status \in StatusEnum

(***************************************************************************)
(* C10: app_id is unique.                                                  *)
(***************************************************************************)
\* C10: no two stored Applications have the same app_id, although
\* generate_app_id draws the suffix without looking at the table.
C10_UniqueIds ==
  \A i, j \in 1..Len(applications) :
     applications[i].app_id = applications[j].app_id => i = j

\* a save drew the id of a stored application and was refused
C10_Witness ==
  /\ last.op = "save" /\ last.raised /\ last.error = "IntegrityError"
  /\ last.app_id \in StoredIds(applications)
  /\ Len(applications) = 2

(***************************************************************************)
(* C11: Scenario B, fed one turn at a time.  Two browsers are at the same  *)
(* point of a conversation; the driver sends the messages of the scenario  *)
(* to browser s1, in order, and nothing to browser s2, whose session so    *)
(* stays the state s1 started from.  Every message of the scenario is      *)
(* different, so the last message sent tells how many were.                *)
(***************************************************************************)
ScenarioB ==
  <<Msg_1, Msg_Jane_Doe, Msg_30, Msg_phone, Msg_skip, Msg_address, Msg_details>>

\* the number of messages of Scenario B sent so far
ScenarioPos ==
  IF last.op = "chat" THEN CHOOSE k \in 1..Len(ScenarioB) : ScenarioB[k] = last.message
  ELSE 0

ScenarioInit ==
  /\ \E sess \in TurnSessions : session = [s \in Sessions |-> sess]
  /\ applications \in TurnStores
  /\ locked \in (IF applications = <<>> THEN {FALSE} ELSE BOOLEAN)
  /\ clock \in 0..MaxClock
  /\ last = [op |-> "init"]

ScenarioNext ==
  \E k \in 1..Len(ScenarioB), rp \in RandomParts :
     ScenarioPos = k - 1 /\ chat("s1", ScenarioB[k], rp)

SpecScenario == ScenarioInit /\ [][ScenarioNext]_vars

\* the state the scenario was started from
Started == LoadSession(session["s2"])

ScenarioAnswers ==
  [name |-> Msg_Jane_Doe, age |-> Msg_30, phone |-> Msg_phone, email |-> EmptyStr,
   address |-> Msg_address, details |-> Msg_details]

\* C11 as claimed: from the session state {start, "", {}}, the seven messages
\* of Scenario B fed one turn at a time end at step=confirm with the answers
\* of the scenario.
C11_Original ==
  (Started = FreshSession /\ ScenarioPos = Len(ScenarioB)) =>
     Current.step = "confirm" /\ Current.answers = ScenarioAnswers

\* C11: from the session state {choose_service, "", {}} (the state the
\* greeting of Scenario A leaves), the seven messages of Scenario B fed one
\* turn at a time end at step=confirm with service=license and the answers of
\* the scenario, the skipped email stored as ""; fed from {start, "", {}}
\* they are each reprompted and the session stays {start, "", {}}.
C11_ScenarioB ==
  /\ (Started = [step |-> "choose_service", service |-> "", answers |-> EmptyDict]
        /\ ScenarioPos = Len(ScenarioB)) =>
        Current = [step |-> "confirm", service |-> "license",
                   answers |-> ScenarioAnswers]
  /\ Started = FreshSession =>
        /\ Current = FreshSession
        /\ last.op = "chat" => last.reply = Reprompt("start")

\* started at choose_service, the seventh message of the scenario was
\* accepted at ask_details and the session is at confirm with the six answers
C11_Witness ==
  /\ Started = [step |-> "choose_service", service |-> "", answers |-> EmptyDict]
  /\ ScenarioPos = Len(ScenarioB)
  /\ last.step = "ask_details" /\ last.reply.kind = "summary"
  /\ Current = [step |-> "confirm", service |-> "license", answers |-> ScenarioAnswers]

(***************************************************************************)
(* C12: the reset operation.                                               *)
(***************************************************************************)
C12_ResetOk ==
  (last'.op = "reset" /\ last'.sid = "s1") =>
     /\ After = FreshSession
     /\ Before = FreshSession => After = Before
     /\ applications' = applications

\* C12: from any session state, a reset leaves the session snapshot the next
\* chat turn loads at {step: start, service: "", answers: {}}; a reset of a
\* session that is already there (a second reset in a row) leaves the same
\* snapshot.
C12_ResetIdempotent == [][C12_ResetOk]_vars

\* a reset was taken while an application is stored, and the next turn will
\* load the fresh snapshot
C12_Witness ==
  /\ last.op = "reset" /\ last.sid = "s1"
  /\ session["s1"] = EmptyDict
  /\ Current = FreshSession
  /\ Len(applications) = 1

(***************************************************************************)
(* C13: two browsers talking to the bot in any interleaving.  Each sends,  *)
(* at every step, an answer that step accepts; the two give different      *)
(* names and emails, so a stored row tells which conversation it is from.  *)
(***************************************************************************)
PairMessages(s, step) ==
  CASE step = "start" -> {Msg_hi, Msg_status}
    [] step = "choose_service" -> {Msg_1}
    [] step = "ask_name" -> IF s = "s1" THEN {Msg_Jane_Doe} ELSE {Msg_mcDonald}
    [] step = "ask_age" -> {Msg_30}
    [] step = "ask_phone" -> {Msg_phone}
    [] step = "ask_email" -> IF s = "s1" THEN {Msg_skip} ELSE {Msg_mail}
    [] step = "ask_address" -> {Msg_address}
    [] step = "ask_details" -> {Msg_details}
    [] step = "confirm" -> {Msg_yes, Msg_n}
    [] step = "check_status" -> {Msg_lic_status}

PairNext ==
  \/ \E s \in Sessions :
       \E m \in PairMessages(s, LoadSession(session[s]).step), rp \in RandomParts :
          chat(s, m, rp)
  \/ CollectGarbage

SpecPair == Init /\ [][PairNext]_vars

SessionOf(s) == LoadSession(session[s])

\* the name a browser gives, as ask_name stores it
OwnName(s) == title(strip(IF s = "s1" THEN Msg_Jane_Doe ELSE Msg_mcDonald))

\* the applications the conversations of browser s committed
OwnRows(s) == SelectSeq(applications, LAMBDA row : row.name = OwnName(s))

\* the step being taken is a chat turn of browser s
TurnOf(s) == last'.op = "chat" /\ last'.sid = s

\* the state the turn of s would leave had s run alone: the same message on
\* the same session, the table holding the rows of s only
AloneState(s, rp) ==
  LET r == chatbot_response(last'.message, SessionOf(s), OwnRows(s), FALSE, rp, clock)
  IN  IF r.raised THEN SessionOf(s) ELSE r.session_data

AsAlone(s) == \E rp \in RandomParts : LoadSession(session'[s]) = AloneState(s, rp)

OthersUntouched(s) == \A t \in Sessions \ {s} : session'[t] = session[t]

\* the turn of s is a yes at confirm whose save_application raised: the
\* database was locked or the id drawn was stored, by either browser
RefusedTurn(s) ==
  /\ SessionOf(s).step = "confirm" /\ Routed(last'.message) \in YesWords
  /\ last'.raised
  /\ locked \/ DrawableIds(SessionOf(s).service) \cap StoredIds(applications) # {}
  /\ session' = session /\ applications' = applications

\* a row the turn of s adds holds the service and the answers of s
CommitOwn(s) ==
  applications' # applications =>
     /\ Len(applications') = Len(applications) + 1
     /\ SubSeq(applications', 1, Len(applications)) = applications
     /\ LET row == applications'[Len(applications')]
        IN  /\ row.service = SessionOf(s).service
            /\ \A f \in Fields : row[f] = SessionOf(s).answers[f]
            /\ row.name = OwnName(s)

\* C13 as claimed: under any interleaving of the turns of two sessions, each
\* session's (step, service, answers) after its own turn is what it would be
\* had the session run alone (checked for turns taken while the database is
\* not locked), a turn leaves the other session as it was, and a committed
\* Application holds only the committing session's service and answers.
C13_Original ==
  [][\A s \in Sessions :
       (TurnOf(s) /\ ~locked) => OthersUntouched(s) /\ AsAlone(s) /\ CommitOwn(s)]_vars

\* C13: under any interleaving of the turns of two sessions, a turn of one
\* session leaves the other session's (step, service, answers) as they were,
\* a committed Application holds only the committing session's service and
\* answers, and each session's state after its own turn is what it would be
\* had it run alone, except for a yes at confirm whose save_application
\* fails because the id drawn is already stored or the database is locked,
\* whichever session caused that: that turn raises and leaves the session at
\* confirm.
C13_Isolation ==
  [][\A s \in Sessions :
       TurnOf(s) =>
          /\ OthersUntouched(s)
          /\ AsAlone(s) \/ RefusedTurn(s)
          /\ CommitOwn(s)]_vars

\* browser s1 committed its application while browser s2 was in the middle
\* of its own conversation, and a row of s2 was already stored
C13_Witness ==
  /\ last.op = "chat" /\ last.sid = "s1" /\ last.reply.kind = "submitted"
  /\ Len(applications) = 2
  /\ applications[1].name = OwnName("s2") /\ applications[1].email = Msg_mail
  /\ applications[2].name = OwnName("s1") /\ applications[2].email = EmptyStr
  /\ SessionOf("s1") = FreshSession
  /\ SessionOf("s2").step = "ask_address"
  /\ SessionOf("s2").answers["name"] = OwnName("s2")

(***************************************************************************)
(* The whole site: the conversation of browser s1, the reset route, the    *)
(* admin routes of both browsers, the clock and the garbage collector.     *)
(***************************************************************************)
SiteMessages(step) ==
  IF step = "choose_service" THEN {Msg_1, Msg_2sp, Msg_4}
  ELSE PairMessages("s1", step)

\* the statuses the admin form of the site posts
SiteStatuses == {"Approved", ""}

SiteNext ==
  \/ \E m \in SiteMessages(LoadSession(session["s1"]).step), rp \in SameRandomPart :
        chat("s1", m, rp)
  \/ reset("s1")
  \/ \E s \in Sessions, u \in Usernames, p \in Passwords : admin_login(s, u, p)
  \/ \E s \in Sessions, a \in FormAppIds, st \in SiteStatuses : admin_update(s, a, st)
  \/ \E s \in Sessions : admin_logout(s)
  \/ Tick
  \/ CollectGarbage

SpecSite == Init /\ [][SiteNext]_vars

(***************************************************************************)
(* C14: what creates, deletes and changes an Application.                  *)
(***************************************************************************)
\* the step is the commit: a yes at confirm that returned
CommitTurn ==
  /\ last'.op = "chat" /\ ~last'.raised
  /\ LoadSession(session[last'.sid]).step = "confirm"
  /\ Routed(last'.message) \in YesWords

\* row new is row old with at most status and updated_at changed
SameButStatus(old, new) ==
  new = [old EXCEPT !.status = new.status, !.updated_at = new.updated_at]

C14_Frame ==
  /\ Len(applications') >= Len(applications)
  /\ \A i \in 1..Len(applications) : SameButStatus(applications[i], applications'[i])
  /\ IF CommitTurn
     THEN /\ Len(applications') = Len(applications) + 1
          /\ SubSeq(applications', 1, Len(applications)) = applications
     ELSE Len(applications') = Len(applications)
  /\ last'.op # "admin_update" => SubSeq(applications', 1, Len(applications)) = applications
  /\ last'.op = "admin_update" =>
        /\ \A i \in 1..Len(applications) :
              applications[i].app_id # last'.app_id => applications'[i] = applications[i]
        /\ Cardinality({i \in 1..Len(applications) :
                          applications'[i] # applications[i]}) <= 1

\* C14: an Application is created only by the commit at confirm, is never
\* deleted, and is changed only by a status update: every other dialog turn
\* and every reset leave the stored Applications as they were, and
\* update_status changes nothing but the status and updated_at of the one
\* row whose app_id matches.
C14_OnlyCommitCreates == [][C14_Frame]_vars

\* the license application was approved at a later second while the
\* certificate application stored next to it stayed Pending
C14_Witness ==
  /\ last.op = "admin_update" /\ last.called /\ ~last.raised /\ last.matched
  /\ Len(applications) = 2
  /\ \E i, j \in 1..2 :
        /\ applications[i].app_id = last.app_id
        /\ applications[i].status = "Approved"
        /\ applications[i].updated_at > applications[i].created_at
        /\ applications[j].service = "certificate"
        /\ applications[j].status = "Pending"
        /\ applications[j].updated_at = applications[j].created_at

(***************************************************************************)
(* C15: the timestamps.                                                    *)
(***************************************************************************)
\* the step is an update_status call that returned: the row it matches has a
\* later updated_at than before
UpdateAdvances ==
  (last'.op = "admin_update" /\ last'.called /\ ~last'.raised) =>
     \A i \in 1..Len(applications) :
        applications[i].app_id = last'.app_id =>
           applications'[i].updated_at > applications[i].updated_at

\* C15: every update_status call on the app_id of a stored Application
\* leaves its updated_at strictly greater than before the call, and
\* created_at <= updated_at holds for every stored Application in every
\* reachable state, timestamps being clock readings in whole seconds.
C15_UpdatedAtAdvances ==
  /\ [][UpdateAdvances]_vars
  /\ [](\A i \in 1..Len(applications) :
          applications[i].created_at <= applications[i].updated_at)

(***************************************************************************)
(* C16: the status words at start.                                         *)
(***************************************************************************)
\* the step is a turn at start on a message that contains "status" or "check"
StatusTurn ==
  /\ last'.op = "chat" /\ Before.step = "start"
  /\ \E w \in StatusWords : In(w, Routed(last'.message))

HasStartWord(m) == \E w \in StartWords : In(w, Routed(m))

\* C16 as claimed: at step=start, every message that contains "status" or
\* "check" (case-insensitive) moves the session to step=check_status.
C16_Original == [][StatusTurn => After.step = "check_status"]_vars

\* C16: at step=start, a message that contains "status" or "check"
\* (case-insensitive) and none of "apply", "hello", "hi", "start" moves the
\* session to step=check_status and changes nothing else; one that also
\* contains one of those four words (as "check this" contains "hi") moves it
\* to step=choose_service, the first row of the table being tested first.
C16_StatusWord ==
  [][StatusTurn =>
       /\ After.service = Before.service /\ After.answers = Before.answers
       /\ IF HasStartWord(last'.message)
          THEN After.step = "choose_service" /\ last'.reply.kind = "menu"
          ELSE After.step = "check_status" /\ last'.reply.kind = "ask_app_id"]_vars

\* "Check" typed at start was asked for an application id
C16_Witness ==
  /\ last.op = "chat" /\ last.step = "start" /\ last.message = Msg_Check
  /\ last.reply.kind = "ask_app_id"
  /\ Current.step = "check_status"

(***************************************************************************)
(* C17: how answers grows.                                                 *)
(***************************************************************************)
FieldOrder == <<"name", "age", "phone", "email", "address", "details">>

AskOrder ==
  <<"ask_name", "ask_age", "ask_phone", "ask_email", "ask_address", "ask_details",
    "confirm">>

\* the place of a step in the sequence of questions, 0 when outside it
Rank(step) ==
  IF \E k \in 1..Len(AskOrder) : AskOrder[k] = step
  THEN CHOOSE k \in 1..Len(AskOrder) : AskOrder[k] = step
  ELSE 0

NoWords == {Lit_no, Lit_n, Lit_restart}

\* the step ends the conversation: the reset route, or a turn at confirm
\* that committed or cancelled
EndsConversation ==
  \/ last'.op = "reset"
  \/ /\ last'.op = "chat" /\ ~last'.raised
     /\ Before.step = "confirm"
     /\ Routed(last'.message) \in YesWords \cup NoWords

C17_Grows ==
  ~EndsConversation =>
     LET old == Before.answers
         new == After.answers
         added == (DOMAIN new) \ (DOMAIN old)
     IN  /\ DOMAIN old \subseteq DOMAIN new
         /\ \A k \in DOMAIN old : new[k] = old[k]
         /\ Cardinality(added) <= 1
         /\ \A k \in added :
               /\ Cardinality(DOMAIN old) < Len(FieldOrder)
               /\ k = FieldOrder[Cardinality(DOMAIN old) + 1]
         /\ Rank(Before.step) > 0 => Rank(After.step) >= Rank(Before.step)

\* C17: across any sequence of turns, a turn adds at most one key to
\* answers, the keys come in the order name, age, phone, email, address,
\* details, a value once written is neither overwritten nor removed by a
\* later turn until the conversation ends (a yes or a no at confirm, or the
\* reset route), and the step never goes back to an earlier question.
C17_AnswersAccumulate == [][C17_Grows]_vars

\* the address was just collected as the fifth answer, the four before it
\* still as they were given
C17_Witness ==
  /\ last.op = "chat" /\ last.step = "ask_address" /\ last.reply.kind = "ask_details"
  /\ Current.step = "ask_details"
  /\ DOMAIN Current.answers = {"name", "age", "phone", "email", "address"}
  /\ Current.answers["name"] = title(Msg_hi)
  /\ Current.answers["age"] = Msg_1
  /\ Current.answers["address"] = Msg_lic_status

(***************************************************************************)
(* C18: the service of a conversation.                                     *)
(***************************************************************************)
\* service is "" before a service is chosen and one of the three after
ServiceFitsStep(sd) ==
  IF sd.step \in {"start", "choose_service", "check_status"}
  THEN sd.service = ""
  ELSE sd.step \in StepEnum /\ sd.service \in Services

\* a turn changes service only at choose_service, from "" to one of the
\* three, or at confirm, back to ""
ServiceSetOnce ==
  (last'.op = "chat" /\ After.service # Before.service) =>
     \/ Before.step = "choose_service" /\ Before.service = "" /\ After.service \in Services
     \/ Before.step = "confirm" /\ After.service = "" /\ After.step = "start"

\* C18: in every session state reachable from {start, "", {}}, service is ""
\* while step is start, choose_service or check_status and is one of
\* license, certificate, complaint while step is ask_name through confirm,
\* a turn setting it only at choose_service; and every Application committed
\* through the dialog has one of the three services and the app_id prefix
\* LIC, CRT or CMP of its service, never APP.
C18_ServiceSet ==
  /\ [](\A s \in Sessions : ServiceFitsStep(LoadSession(session[s])))
  /\ [](\A i \in 1..Len(applications) :
          /\ applications[i].service \in Services
          /\ SubSeq(applications[i].app_id, 1, 3) = prefixes(applications[i].service)
          /\ SubSeq(applications[i].app_id, 1, 3) # <<"A","P","P">>)
  /\ [][ServiceSetOnce]_vars

\* a complaint was committed next to the stored license application, under
\* an id that starts with CMP
C18_Witness ==
  /\ last.op = "chat" /\ last.step = "confirm" /\ last.reply.kind = "submitted"
  /\ Len(applications) = 2
  /\ applications[2].service = "complaint"
  /\ SubSeq(applications[2].app_id, 1, 4) = <<"C","M","P","-">>
  /\ Current = FreshSession

(***************************************************************************)
(* C19: a commit whose save_application fails.                             *)
(***************************************************************************)
\* the turn of browser s is a yes at confirm whose save_application failed
FailedSave(s) ==
  /\ TurnOf(s)
  /\ SessionOf(s).step = "confirm" /\ Routed(last'.message) \in YesWords
  /\ last'.reply.kind \in {"IntegrityError", "OperationalError"}

\* the same confirmation, sent again from the session the failure left,
\* commits once the database is unlocked and the id drawn is not stored
Resubmittable(s) ==
  \A rp \in RandomParts :
     LET sd == LoadSession(session'[s])
         r == chatbot_response(last'.message, sd, applications', FALSE, rp, clock)
     IN  generate_app_id(sd.service, rp) \notin StoredIds(applications') =>
            /\ ~r.raised /\ r.reply.kind = "submitted"
            /\ Len(r.applications) = Len(applications') + 1
            /\ r.applications[Len(r.applications)].name = SessionOf(s).answers["name"]

C19_Kept(s) ==
  FailedSave(s) =>
     /\ last'.raised
     /\ applications' = applications
     /\ session' = session
     /\ LoadSession(session'[s]).step = "confirm"
     /\ LoadSession(session'[s]).service = SessionOf(s).service
     /\ LoadSession(session'[s]).answers = SessionOf(s).answers
     /\ Resubmittable(s)

\* C19: when save_application fails during a yes turn at confirm (the id
\* drawn is already stored, or the database is locked), the turn raises, no
\* Application is added and the stored session stays at step=confirm with
\* service and answers unchanged, so the same confirmation can be sent again
\* (and commits once the database is unlocked and the id drawn is new).
C19_FailedSaveKeeps == [][\A s \in Sessions : C19_Kept(s)]_vars

\* the yes of browser s2 drew the id browser s1 had stored: it raised, and
\* s2 is still at confirm with its six answers
C19_Witness ==
  /\ last.op = "chat" /\ last.sid = "s2" /\ last.step = "confirm"
  /\ last.raised /\ last.reply.kind = "IntegrityError"
  /\ Len(applications) = 1 /\ applications[1].name = OwnName("s1")
  /\ SessionOf("s2").step = "confirm"
  /\ SessionOf("s2").service = "license"
  /\ DOMAIN SessionOf("s2").answers = Fields
  /\ SessionOf("s2").answers["name"] = OwnName("s2")

(***************************************************************************)
(* C20: the admin gate.                                                    *)
(***************************************************************************)
\* session.get("admin_logged_in") of browser s
LoggedIn(s) == Get(session[s], "admin_logged_in", FALSE)

\* the step changes a stored Application
ChangesStored == SubSeq(applications', 1, Len(applications)) # applications

C20_Gate ==
  /\ ChangesStored =>
        /\ last'.op = "admin_update"
        /\ LoggedIn(last'.sid)
        /\ last'.app_id # EmptyStr /\ last'.status # ""
  /\ \A s \in Sessions :
        (~LoggedIn(s) /\ Get(session'[s], "admin_logged_in", FALSE)) =>
           /\ last'.op = "admin_login" /\ last'.sid = s
           /\ [username |-> last'.username, password |-> last'.password] \in admins
  /\ last'.op = "admin_logout" => ~Get(session'[last'.sid], "admin_logged_in", FALSE)

\* C20: the admin route changes an Application's status only in a session
\* whose admin_logged_in flag is true; the flag, false in a new session,
\* becomes true only by an admin login whose username and password are
\* exactly those of a stored credential, and is false again after logout;
\* so a session that never logged in successfully changes no status.
C20_AdminGating == [][C20_Gate]_vars

\* browser s2, not logged in, posted an update of the stored application,
\* which stayed Pending, while browser s1 was logged in as admin
C20_Witness ==
  /\ last.op = "admin_update" /\ last.sid = "s2"
  /\ ~last.allowed /\ last.matched /\ last.status = "Approved"
  /\ ~LoggedIn("s2") /\ LoggedIn("s1")
  /\ Len(applications) = 1
  /\ applications[1].status = "Pending"

====
